---- MODULE Spec2Model ----
(***************************************************************************)
(* A model of the bencode decoder of src/src/lib.rs (BEncoder::decode).     *)
(*                                                                         *)
(* The recursion of detect_and_decode / decode_list / decode_dict is kept  *)
(* as an explicit stack of call frames; decode_integer and decode_string   *)
(* run to completion in one step (they are single iterator chains).        *)
(* Characters are one-character strings, an input is a sequence of them.   *)
(* i64 / usize values are kept as [neg, mag]: a sign and the decimal digits *)
(* of the magnitude without leading zeros, so that the 64-bit limits are    *)
(* exact.                                                                   *)
(***************************************************************************)
EXTENDS Integers, Sequences, FiniteSets

VARIABLES input, pos, current, stack, pc, result

vars == <<input, pos, current, stack, pc, result>>

(***************************************************************************)
(* Bounds of the explored input space.                                      *)
(***************************************************************************)
\* every input of at most MaxLen characters over Alphabet
MaxLen == 4
\* containers of at most MaxElems elements drawn from Elems
MaxElems == 4
\* trailing input of at most MaxSuffix characters after a complete value
MaxSuffix == 2
\* the inputs of DeepInputs open up to MaxDepth lists or dicts inside each
\* other (and one more for the closed lists of Nest)
MaxDepth == 20

(***************************************************************************)
(* Characters.                                                              *)
(***************************************************************************)
DigitChars == <<"0", "1", "2", "3", "4", "5", "6", "7", "8", "9">>

\* characters that take two bytes in UTF-8; every other character of the
\* model is ASCII (one byte)
TwoByteChars == {"é"}

\* char::len_utf8
len_utf8(chr) == IF chr \in TwoByteChars THEN 2 ELSE 1

\* String::len: the length in bytes
RECURSIVE len(_)
len(s) == IF s = <<>> THEN 0 ELSE len_utf8(Head(s)) + len(Tail(s))

\* char::is_digit(10)
is_digit(chr) == \E d \in 1..10 : DigitChars[d] = chr

\* char::to_digit(10) of a digit
to_digit(chr) == (CHOOSE d \in 1..10 : DigitChars[d] = chr) - 1

\* Option<char>::None, as returned by Chars::next at the end of the input
None == "None"

(***************************************************************************)
(* BType, Result.                                                           *)
(***************************************************************************)
ByteString(s) == [type |-> "ByteString", string |-> s]
Integer(n) == [type |-> "Integer", int |-> n]
List(v) == [type |-> "List", list |-> v]
Dict(m) == [type |-> "Dict", dict |-> m]

Ok(v) == [ok |-> TRUE, val |-> v]
Err(e) == [ok |-> FALSE, err |-> e]

\* the state of a thread that called unwrap() on a None or an Err
Panicked == [ok |-> FALSE, err |-> "panicked at 'called unwrap() on a None or Err value'"]

is_ok(r) == r.ok
is_err(r) == ~r.ok

InputTooShort == "Input string is too short."
UnexpectedToken == "Something is missing."
OddDictElements == "Odd number of hash elements provided."
NonStringDictKey == "Dict keys must be a string type."
UnterminatedDict == "A list was not terminated with an 'e'."
UnterminatedList == "A list was not terminated with an 'e'."
IntegerParseError == "Error while parsing integer."
UnterminatedInteger == "No ending 'e' for integer."
StringLengthParseError == "Could not parse number for reading a string."

(***************************************************************************)
(* Integer parsing, str::parse::<i64>() and str::parse::<usize>().          *)
(***************************************************************************)
I64_MAX == <<9, 2, 2, 3, 3, 7, 2, 0, 3, 6, 8, 5, 4, 7, 7, 5, 8, 0, 7>>
I64_MIN == <<9, 2, 2, 3, 3, 7, 2, 0, 3, 6, 8, 5, 4, 7, 7, 5, 8, 0, 8>>
USIZE_MAX == <<1, 8, 4, 4, 6, 7, 4, 4, 0, 7, 3, 7, 0, 9, 5, 5, 1, 6, 1, 5>>

\* a <= b for magnitudes (digit sequences without leading zeros)
MagLE(a, b) ==
    IF Len(a) # Len(b) THEN Len(a) < Len(b)
    ELSE \/ a = b
         \/ \E i \in 1..Len(a) :
               /\ a[i] < b[i]
               /\ \A j \in 1..(i - 1) : a[j] = b[j]

\* checked_mul(10) followed by checked_add(d) / checked_sub(d): the new
\* magnitude, or an overflow when it passes limit
RECURSIVE accumulate(_, _, _)
accumulate(digits, acc, limit) ==
    IF digits = <<>> THEN [ok |-> TRUE, mag |-> acc]
    ELSE IF ~is_digit(Head(digits)) THEN [ok |-> FALSE]
    ELSE LET d == to_digit(Head(digits))
             next == IF acc = <<0>> THEN <<d>> ELSE Append(acc, d)
         IN IF MagLE(next, limit)
            THEN accumulate(Tail(digits), next, limit)
            ELSE [ok |-> FALSE]

\* from_str_radix(src, 10): an optional sign ('-' only for a signed type),
\* then one or more digits, the value within the type's range
from_str(src, is_signed, max, min) ==
    IF src = <<>> THEN Err("Empty")
    ELSE IF src = <<"+">> \/ src = <<"-">> THEN Err("InvalidDigit")
    ELSE LET negative == is_signed /\ Head(src) = "-"
             digits == IF Head(src) = "+" \/ negative THEN Tail(src) ELSE src
             r == accumulate(digits, <<0>>, IF negative THEN min ELSE max)
         IN IF r.ok
            THEN Ok([neg |-> negative /\ r.mag # <<0>>, mag |-> r.mag])
            ELSE Err("InvalidDigitOrOverflow")

parse_i64(s) == from_str(s, TRUE, I64_MAX, I64_MIN)

parse_usize(s) == from_str(s, FALSE, USIZE_MAX, <<0>>)

(***************************************************************************)
(* The cursor: input and the number of characters already consumed.         *)
(***************************************************************************)
\* Chars::next
cursor_next(inp, p) ==
    IF p < Len(inp) THEN [chr |-> inp[p + 1], pos |-> p + 1]
    ELSE [chr |-> None, pos |-> p]

\* cursor.take_while(|chr| *chr != stop).collect::<String>(): the characters
\* before the first stop, with the cursor left after that stop (which is
\* consumed), or at the end of the input when there is none
take_while(inp, p, stop) ==
    LET hits == {i \in (p + 1)..Len(inp) : inp[i] = stop}
        first == IF hits = {} THEN Len(inp) + 1
                 ELSE CHOOSE i \in hits : \A j \in hits : i <= j
    IN [string |-> SubSeq(inp, p + 1, first - 1),
        pos |-> IF hits = {} THEN Len(inp) ELSE first]

\* the value of a magnitude that is known to be small
RECURSIVE mag_value(_)
mag_value(m) ==
    IF m = <<>> THEN 0 ELSE 10 * mag_value(SubSeq(m, 1, Len(m) - 1)) + m[Len(m)]

\* the magnitude of a natural number
RECURSIVE mag_of(_)
mag_of(n) == IF n < 10 THEN <<n>> ELSE Append(mag_of(n \div 10), n % 10)

\* cursor.take(n).collect::<String>(): the next n characters, or all that
\* remain when fewer than n do
take(inp, p, n) ==
    LET remaining == Len(inp) - p
        count == IF MagLE(n.mag, mag_of(remaining)) THEN mag_value(n.mag)
                 ELSE remaining
    IN [string |-> SubSeq(inp, p + 1, p + count), pos |-> p + count]

(***************************************************************************)
(* Option / Result helpers.                                                 *)
(***************************************************************************)
\* Result::unwrap and Option::unwrap: the value, or a panic
unwrap(r) == IF r.ok THEN [panic |-> FALSE, val |-> r.val] ELSE [panic |-> TRUE]

\* Vec::pop
pop(v) ==
    IF v = <<>> THEN [ok |-> FALSE, rest |-> v]
    ELSE [ok |-> TRUE, val |-> v[Len(v)], rest |-> SubSeq(v, 1, Len(v) - 1)]

\* HashMap::new
HashMap_new == [k \in {} |-> {}]

\* a faulty insert: a value already stored under the key is kept
insert_if_absent(m, key, value) ==
    [k \in (DOMAIN m) \cup {key} |-> IF k \in DOMAIN m THEN m[k] ELSE value]

\* HashMap::insert: a value already stored under the key is replaced
insert(m, key, value) ==
    [k \in (DOMAIN m) \cup {key} |-> IF k = key THEN value ELSE m[k]]

(***************************************************************************)
(* decode_integer and decode_string: from the cursor position p, the        *)
(* returned Result and the position the cursor is left at.                  *)
(***************************************************************************)
decode_integer(inp, p) ==
    LET tw == take_while(inp, p, "e")
        \* the last character the inspect closure saw, '0' when it saw none
        cur == IF tw.pos = p THEN "0" ELSE inp[tw.pos]
        num_result == parse_i64(tw.string)
        integer == unwrap(num_result)
    IN [pos |-> tw.pos,
        res |-> IF cur = "e"
                THEN IF is_err(num_result) THEN Err(IntegerParseError)
                     ELSE IF integer.panic THEN Panicked
                     ELSE Ok(Integer(integer.val))
                ELSE Err(UnterminatedInteger)]

decode_string(first, inp, p) ==
    LET tw == take_while(inp, p, ":")
        num_as_string == <<first>> \o tw.string
        number_of_bytes_to_read_result == parse_usize(num_as_string)
        string == take(inp, tw.pos, number_of_bytes_to_read_result.val)
    IN IF is_ok(number_of_bytes_to_read_result)
       THEN [pos |-> string.pos, res |-> Ok(ByteString(string.string))]
       ELSE [pos |-> tw.pos, res |-> Err(StringLengthParseError)]

(***************************************************************************)
(* The end of decode_dict: the elements become the pairs of a HashMap.      *)
(***************************************************************************)
\* the loop of lines 55-63
RECURSIVE dict_pairs(_, _)
dict_pairs(elements, acc) ==
    IF elements = <<>> THEN Ok(Dict(acc))
    ELSE LET value == pop(elements)
             key == pop(value.rest)
         IN IF unwrap(value).panic THEN Panicked
            ELSE IF key.ok /\ key.val.type = "ByteString"
            THEN dict_pairs(key.rest, insert(acc, key.val.string, value.val))
            ELSE Err(NonStringDictKey)

\* lines 47-66, taken when next == Some('e')
dict_close(elements) ==
    IF Len(elements) % 2 # 0 THEN Err(OddDictElements)
    ELSE dict_pairs(elements, HashMap_new)

(***************************************************************************)
(* The inputs explored.                                                     *)
(***************************************************************************)
Alphabet == {"d", "i", "l", "e", "1", ":", "-", "+", "a", "é"}

Strings(n) == UNION {[1..k -> Alphabet] : k \in 0..n}

RECURSIVE Flatten(_)
Flatten(ss) == IF ss = <<>> THEN <<>> ELSE Head(ss) \o Flatten(Tail(ss))

\* the decimal digits of a magnitude, as characters
MagChars(m) == [i \in 1..Len(m) |-> DigitChars[m[i] + 1]]

\* i64 values of the expected results
I64(n) == IF n < 0 THEN [neg |-> TRUE, mag |-> mag_of(-n)]
          ELSE [neg |-> FALSE, mag |-> mag_of(n)]

\* complete encodings used as the elements of generated containers, each with
\* the value it stands for
Elems ==
    { [enc |-> <<"1", ":", "a">>, val |-> ByteString(<<"a">>)],
      [enc |-> <<"1", ":", "é">>, val |-> ByteString(<<"é">>)],
      [enc |-> <<"i", "-", "1", "e">>, val |-> Integer(I64(-1))],
      [enc |-> <<"l", "e">>, val |-> List(<<>>)],
      [enc |-> <<"l", "1", ":", "a", "e">>, val |-> List(<<ByteString(<<"a">>)>>)],
      [enc |-> <<"d", "1", ":", "a", "l", "e", "e">>,
       val |-> Dict([k \in {<<"a">>} |-> List(<<>>)])] }

ElemSeqs == UNION {[1..k -> Elems] : k \in 0..MaxElems}

Encs(es) == Flatten([i \in 1..Len(es) |-> es[i].enc])

\* a list or a dict of generated elements, closed by 'e' or left open
ContainerInputs ==
    {<<h>> \o Encs(es) \o t : h \in {"l", "d"}, es \in ElemSeqs, t \in {<<>>, <<"e">>}}

hello == <<"h", "e", "l", "l", "o">>
key1 == <<"k", "e", "y", "1">>
key2 == <<"k", "e", "y", "2">>
value1 == <<"v", "a", "l", "u", "e", "1">>
value2 == <<"v", "a", "l", "u", "e", "2">>
ComplexList == List(<<List(<<ByteString(hello)>>), Integer(I64(-10))>>)

\* the inputs of the tests of lines 167-271 that open with 'i', 'l' or 'd',
\* each with the value its test expects
TestCases ==
    { [enc |-> <<"i", "1", "2", "3", "4", "5", "6", "7", "8", "9", "e">>,
       val |-> Integer(I64(123456789))],
      [enc |-> <<"i", "-", "1", "2", "3", "e">>, val |-> Integer(I64(-123))],
      [enc |-> <<"l", "e">>, val |-> List(<<>>)],
      [enc |-> <<"l", "5", ":">> \o hello \o <<"e">>,
       val |-> List(<<ByteString(hello)>>)],
      [enc |-> <<"l", "l", "5", ":">> \o hello \o <<"e", "e">>,
       val |-> List(<<List(<<ByteString(hello)>>)>>)],
      [enc |-> <<"l", "l", "5", ":">> \o hello \o <<"e", "i", "-", "1", "0", "e", "e">>,
       val |-> ComplexList],
      [enc |-> <<"d", "e">>, val |-> Dict(HashMap_new)],
      [enc |-> <<"d", "4", ":">> \o key1 \o <<"6", ":">> \o value1
                  \o <<"4", ":">> \o key2 \o <<"6", ":">> \o value2 \o <<"e">>,
       val |-> Dict([k \in {key1, key2} |->
                        IF k = key1 THEN ByteString(value1) ELSE ByteString(value2)])],
      [enc |-> <<"d", "4", ":">> \o key1 \o <<"6", ":">> \o value1
                  \o <<"4", ":">> \o key2 \o <<"6", ":">> \o value2
                  \o <<"2", ":", "o", "k", "l", "l", "5", ":">> \o hello
                  \o <<"e", "i", "-", "1", "0", "e", "e", "e">>,
       val |-> Dict([k \in {key1, key2, <<"o", "k">>} |->
                        IF k = key1 THEN ByteString(value1)
                        ELSE IF k = key2 THEN ByteString(value2)
                        ELSE ComplexList])] }

\* a test input followed by arbitrary trailing characters
SuffixedInputs == {c.enc \o s : c \in TestCases, s \in Strings(MaxSuffix)}

\* integers at and around the limits of i64, and non-canonical forms
IntegerBodies ==
    { MagChars(I64_MAX), MagChars(I64_MIN),
      <<"-">> \o MagChars(I64_MAX), <<"-">> \o MagChars(I64_MIN),
      <<"-">> \o MagChars(SubSeq(I64_MIN, 1, 18) \o <<9>>),
      <<"+">> \o MagChars(I64_MAX), <<"+">> \o MagChars(I64_MIN),
      <<"0", "0">> \o MagChars(I64_MAX), <<"1">> \o MagChars(I64_MAX),
      <<"-", "0">>, <<"0", "0", "7">>, <<"-", "0", "1", "0">>, <<"1", "a">>,
      <<"1", "-">>, <<"-", "-", "1">>, <<"+", "-", "1">>, <<"1", "2", "3">> }

IntegerInputs == {<<"i">> \o b \o <<"e">> : b \in IntegerBodies}

\* strings: the two tests, long and zero-padded length prefixes, missing ':'
StringInputs ==
    { <<"5", ":">> \o hello, <<"4", ":">> \o hello, <<"9", ":">> \o hello,
      <<"0", "5", ":">> \o hello, <<"0", "0", "0", ":">> \o hello,
      MagChars(USIZE_MAX) \o <<":">> \o hello,
      MagChars(SubSeq(USIZE_MAX, 1, 19) \o <<6>>) \o <<":">> \o hello,
      <<"1", "2", "3", "4", "5", "6", "7", "8", "9", "0", ":">> \o hello,
      <<"l", "3", ":", "a", "e", "e">>, <<"l", "1", "0", ":", "a", "e", "e", "e">>,
      <<"1", "2", "3", "4", "5">>, <<"l", "1", "2", "3", "4", "5">> }

\* k lists inside each other, the innermost empty: "l" x k, "e" x k
Nest(k) == [i \in 1..(2 * k) |-> IF i <= k THEN "l" ELSE "e"]

\* what follows the innermost 'l' or 'd' of a deep input: nothing, a string,
\* an integer (closed or left open), or the elements and the 'e' of the
\* innermost container (none, a pair with a string key, a pair with a list
\* as its key)
DeepTails ==
    { <<>>, <<"1", ":", "a">>, <<"i", "1", "e">>, <<"i", "1">>, <<"e">>,
      <<"1", ":", "a", "1", ":", "a", "e">>, <<"l", "e", "l", "e", "e">> }

\* deep nesting: closed lists, lists and dicts that are opened and never
\* closed, and dicts that are all closed
DeepInputs ==
    {Nest(k) : k \in 1..(MaxDepth + 1)}
        \cup {[i \in 1..k |-> h] \o t :
                 h \in {"l", "d"}, k \in 2..MaxDepth, t \in DeepTails}
        \cup {[i \in 1..(2 * k) |-> IF i <= k THEN "d" ELSE "e"] : k \in 2..MaxDepth}

Inputs ==
    Strings(MaxLen) \cup ContainerInputs \cup SuffixedInputs
        \cup IntegerInputs \cup StringInputs \cup DeepInputs

(***************************************************************************)
(* The decoder as a state machine.  pc is the function the control is in:   *)
(*   "decode"             before line 16                                    *)
(*   "detect_and_decode"  at the match of line 28, with current             *)
(*   "decode_list"        at the loop test of line 88, with next = current  *)
(*   "decode_dict"        at the loop test of line 46, with next = current  *)
(*   "return"             a callee has just returned result to its caller   *)
(*   "done"               decode has returned result, or the thread has     *)
(*                        panicked                                          *)
(*   "aborted"            the process was aborted by a stack overflow:      *)
(*                        decode returns nothing                            *)
(* stack holds one frame per decode_list / decode_dict call in progress,    *)
(* innermost last, with the elements it has collected (acc, elements).      *)
(***************************************************************************)
NoResult == [ok |-> FALSE, err |-> "no result yet"]

Init ==
    /\ input \in Inputs
    /\ pos = 0
    /\ current = None
    /\ stack = <<>>
    /\ pc = "decode"
    /\ result = NoResult

Top == stack[Len(stack)]
Callers == SubSeq(stack, 1, Len(stack) - 1)

\* a stack overflow: a call, or the frame of the function entered, for which
\* the thread's stack has no room left.  The runtime aborts the process
\* ("thread ... has overflowed its stack", SIGABRT) and decode returns
\* nothing.  No line of the code tests the depth of the recursion or the
\* room left: whether a step overflows is decided by the build, by the size
\* of the stack and by what the caller of decode and the calls in progress
\* have used of it.  Every step of decode makes calls (String::len,
\* Chars::next, detect_and_decode and the decode_* functions, to_string,
\* push, pop, insert, the drop of input), so the outcome is allowed beside
\* the normal one at every step.
Abort ==
    /\ pc' = "aborted"
    /\ stack' = <<>>
    /\ result' = NoResult
    /\ UNCHANGED <<input, pos, current>>

\* a faulty Decode: the length is counted in characters, not in bytes
Decode_in_characters ==
    /\ pc = "decode"
    /\ \/ /\ IF Len(input) < 2
             THEN /\ result' = Err(InputTooShort)
                  /\ pc' = "done"
                  /\ UNCHANGED <<pos, current>>
             ELSE LET next == cursor_next(input, pos)
                  IN /\ current' = next.chr
                     /\ pos' = next.pos
                     /\ pc' = "detect_and_decode"
                     /\ UNCHANGED result
          /\ UNCHANGED <<input, stack>>
       \/ Abort

\* lines 15-25
Decode ==
    /\ pc = "decode"
    /\ \/ /\ IF len(input) < 2
             THEN /\ result' = Err(InputTooShort)
                  /\ pc' = "done"
                  /\ UNCHANGED <<pos, current>>
             ELSE LET next == cursor_next(input, pos)
                  IN /\ current' = next.chr
                     /\ pos' = next.pos
                     /\ pc' = "detect_and_decode"
                     /\ UNCHANGED result
          /\ UNCHANGED <<input, stack>>
       \/ Abort

\* the call of decode_list or decode_dict (lines 30, 34): a new frame, and
\* its first cursor.next() (lines 42-44, 84-86); or a stack overflow
Enter(fn) ==
    \/ LET next == cursor_next(input, pos)
       IN /\ stack' = Append(stack, [fn |-> fn, elements |-> <<>>])
          /\ current' = next.chr
          /\ pos' = next.pos
          /\ pc' = fn
          /\ UNCHANGED <<input, result>>
    \/ Abort

\* a callee that ran to completion returns r.res with the cursor at r.pos
Leaf(r) ==
    /\ result' = r.res
    /\ pos' = r.pos
    /\ pc' = IF r.res = Panicked THEN "done" ELSE "return"
    /\ stack' = IF r.res = Panicked THEN <<>> ELSE stack
    /\ UNCHANGED <<input, current>>

\* line 30
DetectDict ==
    /\ pc = "detect_and_decode"
    /\ current = "d"
    /\ Enter("decode_dict")

\* line 32: decode_integer runs to its return, or overflows the stack
DetectInteger ==
    /\ pc = "detect_and_decode"
    /\ current = "i"
    /\ \/ Leaf(decode_integer(input, pos))
       \/ Abort

\* line 34
DetectList ==
    /\ pc = "detect_and_decode"
    /\ current = "l"
    /\ Enter("decode_list")

\* line 36: decode_string runs to its return, or overflows the stack
DetectString ==
    /\ pc = "detect_and_decode"
    /\ is_digit(current)
    /\ \/ Leaf(decode_string(current, input, pos))
       \/ Abort

\* line 37
DetectOther ==
    /\ pc = "detect_and_decode"
    /\ current \notin {"d", "i", "l"}
    /\ ~is_digit(current)
    /\ \/ Leaf([res |-> Err(UnexpectedToken), pos |-> pos])
       \/ Abort

\* the innermost frame returns r to its caller
Return(r) ==
    /\ result' = r
    /\ stack' = IF r = Panicked THEN <<>> ELSE Callers
    /\ pc' = IF r = Panicked THEN "done" ELSE "return"
    /\ UNCHANGED <<input, pos, current>>

\* the caller's result.is_ok() branch: push result.unwrap(), advance the cursor
Push ==
    LET value == unwrap(result)
        next == cursor_next(input, pos)
    IN IF value.panic
       THEN /\ result' = Panicked
            /\ stack' = <<>>
            /\ pc' = "done"
            /\ UNCHANGED <<input, pos, current>>
       ELSE /\ stack' = Append(Callers,
                           [Top EXCEPT !.elements = Append(@, value.val)])
            /\ current' = next.chr
            /\ pos' = next.pos
            /\ pc' = Top.fn
            /\ UNCHANGED <<input, result>>

\* lines 46 and 80: the input ended inside the dict
DictUnterminated ==
    /\ pc = "decode_dict"
    /\ current = None
    /\ \/ Return(Err(UnterminatedDict))
       \/ Abort

\* lines 47-66: the dict is built and returned, or the calls of the branch
\* (HashMap::new, pop, insert) overflow the stack
DictClose ==
    /\ pc = "decode_dict"
    /\ current = "e"
    /\ \/ Return(dict_close(Top.elements))
       \/ Abort

\* line 68
DictElement ==
    /\ pc = "decode_dict"
    /\ current \notin {None, "e"}
    /\ \/ /\ pc' = "detect_and_decode"
          /\ UNCHANGED <<input, pos, current, stack, result>>
       \/ Abort

\* lines 70-77
DictResult ==
    /\ pc = "return"
    /\ stack # <<>>
    /\ Top.fn = "decode_dict"
    /\ \/ IF is_ok(result) THEN Push ELSE Return(result)
       \/ Abort

\* a faulty ListUnterminated: the list read so far is returned
ListUnterminated_truncating ==
    /\ pc = "decode_list"
    /\ current = None
    /\ \/ Return(Ok(List(Top.elements)))
       \/ Abort

\* lines 88 and 106: the input ended inside the list
ListUnterminated ==
    /\ pc = "decode_list"
    /\ current = None
    /\ \/ Return(Err(UnterminatedList))
       \/ Abort

\* lines 89-92
ListClose ==
    /\ pc = "decode_list"
    /\ current = "e"
    /\ \/ Return(Ok(List(Top.elements)))
       \/ Abort

\* line 94
ListElement ==
    /\ pc = "decode_list"
    /\ current \notin {None, "e"}
    /\ \/ /\ pc' = "detect_and_decode"
          /\ UNCHANGED <<input, pos, current, stack, result>>
       \/ Abort

\* lines 96-103
ListResult ==
    /\ pc = "return"
    /\ stack # <<>>
    /\ Top.fn = "decode_list"
    /\ \/ IF is_ok(result) THEN Push ELSE Return(result)
       \/ Abort

\* a faulty DecodeReturn: input left after the value is an error
DecodeReturn_strict ==
    /\ pc = "return"
    /\ stack = <<>>
    /\ \/ /\ pc' = "done"
          /\ result' = IF is_ok(result) /\ pos < Len(input)
                       THEN Err(UnexpectedToken) ELSE result
          /\ UNCHANGED <<input, pos, current, stack>>
       \/ Abort

\* lines 24-25: decode returns what detect_and_decode returned, and drops
\* input
DecodeReturn ==
    /\ pc = "return"
    /\ stack = <<>>
    /\ \/ /\ pc' = "done"
          /\ UNCHANGED <<input, pos, current, stack, result>>
       \/ Abort

Next ==
    \/ Decode
    \/ DetectDict
    \/ DetectInteger
    \/ DetectList
    \/ DetectString
    \/ DetectOther
    \/ DictUnterminated
    \/ DictClose
    \/ DictElement
    \/ DictResult
    \/ ListUnterminated
    \/ ListClose
    \/ ListElement
    \/ ListResult
    \/ DecodeReturn

Spec == Init /\ [][Next]_vars

(***************************************************************************)
(* Properties.  The definitions below are written from the statements       *)
(* checked, not from the decoder: they read the input directly.             *)
(***************************************************************************)
Min(a, b) == IF a <= b THEN a ELSE b

IsPrefix(a, b) == Len(a) <= Len(b) /\ SubSeq(b, 1, Len(a)) = a

\* the positions after p that hold chr
Occurrences(chr, p) == {i \in (p + 1)..Len(input) : input[i] = chr}

FirstOccurrence(chr, p) ==
    CHOOSE i \in Occurrences(chr, p) : \A j \in Occurrences(chr, p) : i <= j

AllDigits(s) == \A i \in 1..Len(s) : s[i] \in {DigitChars[d] : d \in 1..10}

DigitValue(chr) == CHOOSE d \in 0..9 : DigitChars[d + 1] = chr

\* a digit string without its leading zeros ("0" for zero)
RECURSIVE StripZeros(_)
StripZeros(s) ==
    IF Len(s) > 1 /\ Head(s) = "0" THEN StripZeros(Tail(s)) ELSE s

\* the number a string of at most 9 significant digits denotes
RECURSIVE Number(_)
Number(s) ==
    IF s = <<>> THEN 0
    ELSE 10 * Number(SubSeq(s, 1, Len(s) - 1)) + DigitValue(s[Len(s)])

----
\* C1: when decode_string is entered, at any nesting level, with a length
\* prefix (the first digit and the characters up to the first ':') that
\* denotes a length n of at most 2^64 - 1, it returns Ok(ByteString) of the
\* first min(n, r) characters after the ':', r being the number of
\* characters that remain, and leaves the cursor right after them; with
\* r < n this is still Ok.
C1_Prefix == <<current>> \o SubSeq(input, pos + 1, FirstOccurrence(":", pos) - 1)

\* the digits of the length the prefix denotes
C1_Length ==
    LET digits == StripZeros(C1_Prefix)
    IN [i \in 1..Len(digits) |-> DigitValue(digits[i])]

C1_Count ==
    LET digits == StripZeros(C1_Prefix)
        r == Len(input) - FirstOccurrence(":", pos)
    IN IF Len(digits) > 9 THEN r ELSE Min(Number(digits), r)

C1_Entered ==
    /\ pc = "detect_and_decode"
    /\ is_digit(current)
    /\ Occurrences(":", pos) # {}
    /\ AllDigits(C1_Prefix)
    /\ MagLE(C1_Length, USIZE_MAX)

C1_StringPayload ==
    [][C1_Entered
       => LET colon == FirstOccurrence(":", pos)
          IN /\ result' = Ok(ByteString(SubSeq(input, colon + 1, colon + C1_Count)))
             /\ pos' = colon + C1_Count]_vars

\* C3: when decode_string is entered and the input holds no ':' from the
\* cursor on, it returns Err(StringLengthParseError), whatever the prefix.
C3_NoColonIsError ==
    [][(/\ pc = "detect_and_decode"
        /\ is_digit(current)
        /\ Occurrences(":", pos) = {})
       => result' = Err(StringLengthParseError)]_vars

\* C7: "i" B "e", B without 'e', decodes to Integer(v) exactly when B is an
\* optional '-' and one or more digits of a value v within i64, and fails
\* with IntegerParseError for every other B.
C7_Body == SubSeq(input, 2, Len(input) - 1)

C7_Negative == C7_Body # <<>> /\ Head(C7_Body) = "-"

C7_Digits == IF C7_Negative THEN Tail(C7_Body) ELSE C7_Body

C7_Magnitude ==
    LET s == StripZeros(C7_Digits) IN [i \in 1..Len(s) |-> DigitValue(s[i])]

C7_WellFormed ==
    /\ C7_Digits # <<>>
    /\ AllDigits(C7_Digits)
    /\ MagLE(C7_Magnitude, IF C7_Negative THEN I64_MIN ELSE I64_MAX)

C7_IntegerGrammar ==
    (/\ pc = "done"
     /\ Len(input) >= 2
     /\ Head(input) = "i"
     /\ Occurrences("e", 0) = {Len(input)})
    => IF C7_WellFormed
       THEN result = Ok(Integer([neg |-> C7_Negative /\ C7_Magnitude # <<0>>,
                                 mag |-> C7_Magnitude]))
       ELSE result = Err(IntegerParseError)

\* C8 as stated: InputTooShort, with nothing consumed, exactly for the
\* inputs of fewer than 2 characters.
C8_ShortInCharacters ==
    pc = "done" =>
        /\ (result = Err(InputTooShort)) <=> (Len(input) < 2)
        /\ result = Err(InputTooShort) => pos = 0

\* C8 as amended: InputTooShort, with nothing consumed, exactly for the
\* inputs of fewer than 2 bytes of UTF-8; a single character of two or more
\* bytes is dispatched and fails with UnexpectedToken.
C8_Bytes ==
    Len(input) + Cardinality({i \in 1..Len(input) : input[i] \in TwoByteChars})

C8_ShortInBytes ==
    pc = "done" =>
        /\ (result = Err(InputTooShort)) <=> (C8_Bytes < 2)
        /\ result = Err(InputTooShort) => pos = 0
        /\ (Len(input) = 1 /\ C8_Bytes >= 2) => result = Err(UnexpectedToken)

C8_Witness ==
    /\ pc = "done"
    /\ input = <<"é">>
    /\ pos = 1
    /\ result = Err(UnexpectedToken)

----
Unterminated == {UnterminatedInteger, UnterminatedList, UnterminatedDict}

C4_Elements == Top.elements

C4_Pairs == 1..(Len(C4_Elements) \div 2)

C4_Key(j) == C4_Elements[2 * j - 1].string

C4_Value(j) == C4_Elements[2 * j]

C4_Closing == pc = "decode_dict" /\ current = "e"

\* C4 as stated: a dict that closes with several pairs of the same key maps
\* the key to the value of the pair that comes last in the input.
C4_LaterPairWins ==
    [][(C4_Closing /\ is_ok(result'))
       => \A j \in C4_Pairs :
             (\A k \in C4_Pairs : C4_Key(k) = C4_Key(j) => k <= j)
             => result'.val.dict[C4_Key(j)] = C4_Value(j)]_vars

\* C4 as amended: the key is held once, with the value of the pair that
\* comes first in the input (the pairs are inserted from the last to the
\* first, and each insertion replaces the value stored before).
C4_EarlierPairWins ==
    [][(C4_Closing /\ is_ok(result'))
       => /\ DOMAIN result'.val.dict = {C4_Key(j) : j \in C4_Pairs}
          /\ \A j \in C4_Pairs :
                (\A k \in C4_Pairs : C4_Key(k) = C4_Key(j) => j <= k)
                => result'.val.dict[C4_Key(j)] = C4_Value(j)]_vars

\* the key "a" given twice, first with the value "a", then with "é"
C4_Witness ==
    /\ pc = "return"
    /\ input = <<"d", "1", ":", "a", "1", ":", "a", "1", ":", "a", "1", ":", "é", "e">>
    /\ result = Ok(Dict([k \in {<<"a">>} |-> ByteString(<<"a">>)]))

\* C5: decode never aborts the process: no unwrap panics, the process is
\* not aborted, every step brings the run closer to its end, a run that has
\* not returned can take a step, and what is returned is Ok or one of the
\* errors of the result type.
PublicErrors ==
    {InputTooShort, UnexpectedToken, UnterminatedInteger, IntegerParseError,
     StringLengthParseError, UnterminatedList, UnterminatedDict,
     OddDictElements, NonStringDictKey}

\* the characters not yet dispatched: those after the cursor, and the one
\* held in current while it waits for its match
C5_Undispatched ==
    (Len(input) - pos)
    + (IF pc \in {"detect_and_decode", "decode_list", "decode_dict"}
          /\ current # None THEN 1 ELSE 0)

C5_Rank ==
    CASE pc = "decode" -> 4
      [] pc = "return" -> 3
      [] pc \in {"decode_list", "decode_dict"} -> 2
      [] pc = "detect_and_decode" -> 1
      [] pc \in {"done", "aborted"} -> 0

\* the control is at a place from which one of the actions can be taken
C5_CanStep ==
    /\ pc \in {"decode", "detect_and_decode", "decode_list", "decode_dict", "return"}
    /\ pc \in {"decode_list", "decode_dict"} => (stack # <<>> /\ Top.fn = pc)
    /\ (pc = "return" /\ stack # <<>>) => Top.fn \in {"decode_list", "decode_dict"}

C5_NeverAborts ==
    /\ [](/\ pc # "aborted"
          /\ pc = "done" => (is_ok(result) \/ result.err \in PublicErrors)
          /\ result # Panicked
          /\ pc # "done" => C5_CanStep)
    /\ [][\/ C5_Undispatched' < C5_Undispatched
          \/ /\ C5_Undispatched' = C5_Undispatched
             /\ Len(stack') < Len(stack)
          \/ /\ C5_Undispatched' = C5_Undispatched
             /\ Len(stack') = Len(stack)
             /\ C5_Rank' < C5_Rank]_vars

\* C6: a dict, at any nesting level, that reaches its 'e' with k elements
\* fails with OddDictElements when k is odd, with NonStringDictKey when k is
\* even and an element in a key position (1st, 3rd, ...) is not a
\* ByteString, and is otherwise returned as a Dict, whose keys are the
\* strings of the elements in key position.
C6_KeysAreStrings ==
    \A j \in C4_Pairs : C4_Elements[2 * j - 1].type = "ByteString"

C6_DictFinalisation ==
    [][C4_Closing
       => IF Len(C4_Elements) % 2 = 1 THEN result' = Err(OddDictElements)
          ELSE IF ~C6_KeysAreStrings THEN result' = Err(NonStringDictKey)
          ELSE /\ is_ok(result')
               /\ result'.val.type = "Dict"
               /\ DOMAIN result'.val.dict = {C4_Key(j) : j \in C4_Pairs}
               /\ \A k \in DOMAIN result'.val.dict :
                     \E j \in C4_Pairs : result'.val.dict[k] = C4_Value(j)]_vars

\* C9: "l" E1 ... En "e", each Ei a complete encoding that decodes to Vi
\* (one of Elems, or up to MaxDepth lists inside each other), decodes to
\* the list of the Vi, in input order; and each Ei alone decodes to Vi.
RECURSIVE C9_NestValue(_)
C9_NestValue(k) == IF k = 1 THEN List(<<>>) ELSE List(<<C9_NestValue(k - 1)>>)

C9_Elems ==
    Elems \cup {[enc |-> Nest(k), val |-> C9_NestValue(k)] : k \in 1..MaxDepth}

C9_ElemsAt(i) ==
    {e \in C9_Elems : /\ i + Len(e.enc) - 1 <= Len(input)
                      /\ SubSeq(input, i, i + Len(e.enc) - 1) = e.enc}

\* the values of the elements that fill the input from i to its last 'e'
RECURSIVE C9_Values(_)
C9_Values(i) ==
    IF i = Len(input) /\ input[i] = "e" THEN [ok |-> TRUE, vals |-> <<>>]
    ELSE IF C9_ElemsAt(i) = {} THEN [ok |-> FALSE]
    ELSE LET e == CHOOSE x \in C9_ElemsAt(i) : TRUE
             rest == C9_Values(i + Len(e.enc))
         IN IF rest.ok THEN [ok |-> TRUE, vals |-> <<e.val>> \o rest.vals]
            ELSE [ok |-> FALSE]

C9_ListInOrder ==
    pc \in {"done", "aborted"} =>
        /\ (Len(input) >= 2 /\ Head(input) = "l" /\ C9_Values(2).ok)
           => (pc = "done" /\ result = Ok(List(C9_Values(2).vals)))
        /\ \A e \in C9_Elems :
              input = e.enc => (pc = "done" /\ result = Ok(e.val))

\* C10: an integer, list or dict encoding P that decodes to v, followed by
\* any characters S, decodes to v as well, with the cursor left at the end
\* of P.
C10_Encodings == TestCases \cup {e \in Elems : Head(e.enc) \in {"i", "l", "d"}}

C10_TrailingInputIgnored ==
    pc = "done" =>
        \A c \in C10_Encodings :
            IsPrefix(c.enc, input) => (result = Ok(c.val) /\ pos = Len(c.enc))

\* "i-123e" followed by characters that would be an error on their own
C10_Witness ==
    /\ pc = "done"
    /\ input = <<"i", "-", "1", "2", "3", "e", ":", "+">>
    /\ pos = 6
    /\ result = Ok(Integer(I64(-123)))

====
